---- MODULE Spec2Model ----
(***************************************************************************)
(* Model of RentEstimator.estimate (src/main.py): the rent-estimation      *)
(* pipeline that checks the estimate cache, acquires an unthrottled        *)
(* TOR + browser pair, queries one residential unit at a time, and caches  *)
(* and returns the collected estimates; and of Listing.units, which gets   *)
(* the units of a listing out of its raw data when the Listing is          *)
(* constructed in the main loop.                                           *)
(*                                                                         *)
(* Bath counts are floats in the program; the model counts them in half    *)
(* baths (2 = one bath, 3 = 1.5 baths, -2 = the -1 passed on the retry).   *)
(* A Unit object is referred to by its position in listing.units, which    *)
(* stands for the Python object reference held by RentEstimatedUnit.unit.  *)
(***************************************************************************)
EXTENDS Integers, Sequences, FiniteSets, TLC

\* ---- bounds of the model ----
MaxUnits == 2       \* longest listing.units
MaxSessions == 3    \* most TOR processes one run may start
MaxEofReads == 2    \* most empty reads of a closed TOR output followed
MaxRuns == 2        \* most calls of estimate for the listing
MaxSubCategories == 2  \* longest subCategories list of a raw detail
MaxInputs == 2      \* longest inputs list of the main block
MaxRow == 3         \* most tuples written, and last row skipped to
MaxRetries == 2     \* most 429 answers to the invocations of one call
MaxPrice == 6       \* highest price of a scenario, in 100000 dollars

\* ---- program constants ----

OneBath == 2        \* baths == 1, in half baths
TooManyRequests == 429  \* the code gspread_retry looks for
RetryBaths == -2    \* the -1 passed as baths on the broadened retry
Rent == 1500        \* a dollar amount parsed from a statistic box

\* The address of the listing and the address of another property.  Each
\* also names the directory os.path.join(CACHEDIR, address) makes of it.
ListingAddress == "A"
Addresses == {ListingAddress, "B"}

\* A different address string that os.path.join(CACHEDIR, address) takes to
\* the directory of the listing's address: "./A" (as would "A/").
AliasAddress == "./A"
AddressStrings == Addresses \cup {AliasAddress}

\* src/main.py:390-391: the directory of the cache the estimate file of an
\* address string lies in, as the file system resolves the joined path.
EstimateDir(a) == IF a = AliasAddress THEN ListingAddress ELSE a

\* The estimate file of an address string in the cache directory c.
FileOf(c, a) == c[EstimateDir(a)]

\* Unit(beds, baths): baths in half baths.
UnitValues ==
  { [beds |-> 1, baths |-> 2], [beds |-> 2, baths |-> 3],
    [beds |-> 3, baths |-> 1] }

AVERAGE == "average"
MEDIAN == "median"
PERCENTILE_25 == "25th percentile"
PERCENTILE_75 == "75th percentile"

EstimateType == {AVERAGE, MEDIAN, PERCENTILE_25, PERCENTILE_75}

\* The order in which the zero estimates are added on a double failure.
EstimateTypeOrder == <<AVERAGE, MEDIAN, PERCENTILE_25, PERCENTILE_75>>

\* The three options of the baths selector.
FilterAny == ""
FilterOneOnly == "1"
FilterOneAndHalfOrMore == "1.5"
Filters == {FilterAny, FilterOneOnly, FilterOneAndHalfOrMore}

\* The estimate file of an address: absent, or holding a pickled collection.
NoEntry == [present |-> FALSE, estimates |-> <<>>]
Entry(est) == [present |-> TRUE, estimates |-> est]

\* A statistic box of the results page: the keywords its text contains and
\* the value atof gives for the text after the last '$'.
Box(words, val) == [words |-> words, parses |-> TRUE, val |-> val]

\* A box whose text after the last '$' atof cannot parse.
BadBox(words) == [words |-> words, parses |-> FALSE, val |-> 0]

\* Results pages the site is taken to answer with: all four statistics; three
\* of them and a box of an unknown kind; a box that names two kinds followed
\* by one whose amount does not parse; no box at all.
StatPages ==
  { <<Box({"AVERAGE"}, Rent), Box({"MEDIAN"}, Rent),
      Box({"25TH PERCENTILE"}, Rent), Box({"75TH PERCENTILE"}, Rent)>>,
    <<Box({"AVERAGE"}, Rent), Box({"RESULTS"}, Rent), Box({"MEDIAN"}, Rent),
      Box({"75TH PERCENTILE"}, Rent)>>,
    <<Box({"AVERAGE", "MEDIAN"}, Rent), BadBox({"MEDIAN"}),
      Box({"25TH PERCENTILE"}, Rent)>>,
    <<>> }

\* A collection an earlier run can have left in the cache.
CachedSample ==
  << [units |-> <<[unit |-> 1, monthly_rent |-> Rent]>>, type |-> AVERAGE] >>

\* A collection an earlier run for another address can have left.
OtherSample ==
  << [units |-> <<[unit |-> 1, monthly_rent |-> 0]>>, type |-> MEDIAN] >>

Listings ==
  UNION { [1..n -> UnitValues] : n \in 1..MaxUnits }

\* The cache directories a run for a listing with the units l is started
\* with: the file of the listing's address is there or not; the file of
\* the other address is there, and for one-unit listings also not there.
CacheDirs(l) ==
  { c \in [Addresses -> {NoEntry, Entry(CachedSample), Entry(OtherSample)}] :
      /\ c[ListingAddress] \in {NoEntry, Entry(CachedSample)}
      /\ \A a \in Addresses \ {ListingAddress} :
           \/ c[a] = Entry(OtherSample)
           \/ c[a] = NoEntry /\ Len(l) = 1 }

Sessions == 1..MaxSessions

\* ---- the raw listing, as far as the unit extractors read it ----

\* A sub-category of a detail: "unit" is a sub-category named "Unit n" whose
\* fields give one bedroom and one bathroom value; "other" has a name that
\* does not match ^Unit \d+; "malformed" has no name, no fields or lacks a
\* usable bedroom or bathroom value.
NoUnit == [beds |-> 0, baths |-> 0]
SubCategory(kind, unit) == [kind |-> kind, unit |-> unit]
SubCategories ==
  { SubCategory("unit", u) : u \in UnitValues }
    \cup { SubCategory("other", NoUnit), SubCategory("malformed", NoUnit) }
SubCategoryLists ==
  UNION { [1..n -> SubCategories] : n \in 0..MaxSubCategories }

\* A detail of the raw listing: missing (or without subCategories), or
\* present with its list of sub-categories.
NoDetail == [found |-> FALSE, subCategories |-> <<>>]
Detail(s) == [found |-> TRUE, subCategories |-> s]
Details == {NoDetail} \cup { Detail(s) : s \in SubCategoryLists }

\* The "Unit Information" and the "Multi Family" detail of a raw listing.
RawListings == [unit_information : Details, multi_family : Details]
NoUnitDetails == [unit_information |-> NoDetail, multi_family |-> NoDetail]

\* The units argument of Listing: None, or a list.
NotPassed == [given |-> FALSE, list |-> <<>>]
Passed(l) == [given |-> TRUE, list |-> l]
PassedUnits ==
  {NotPassed, Passed(<<>>)} \cup { Passed(<<u>>) : u \in UnitValues }

VARIABLES
  pc,            \* position of the run inside estimate
  address,       \* listing.pretty_address
  units,         \* listing.units
  cache,         \* address -> estimate file (NoEntry or Entry)
  cacheAtStart,  \* the cache directory as it was when estimate was called
  estimates,     \* self.estimates
  unitIdx,       \* position of the for loop over listing.units
  attempt,       \* 1: exact-bath submission, 2: broadened retry
  acqFrom,       \* who called _get_unthrottled_tor_browser
  nTor,          \* TOR processes started so far (ids 1..nTor)
  torKills,      \* id -> number of kill() issued on that process
  brLaunched,    \* ids whose browser was launched
  brQuits,       \* id -> number of close()/quit() issued on that browser
  self_tor,      \* self.tor (0: attribute not set)
  self_browser,  \* self.browser (0: attribute not set)
  tor,           \* local tor of _get_unthrottled_tor_browser
  button,        \* browser the analyze_button element belongs to
  subs,          \* submissions made (clicks on Analyze), with responses
  nDisabled,     \* probes that found the Analyze button disabled
  nAcq,          \* completed calls of _get_unthrottled_tor_browser
  recovered,     \* <<unit, attempt>> whose submission followed a nuke
  seen,          \* unit -> what its processing appended, in order
  warned,        \* units for which the missing-stat warning was logged
  fault,         \* "none", "env" (a call raised), "stale" (dead element)
  faultUnit,     \* unitIdx when the exception was raised
  pages,         \* unit -> the results pages its statistics were read from
  eofReads,      \* empty lines read from the closed output of the TOR
  run,           \* number of the current call of estimate for the listing
  prevEstimates, \* what the previous call of estimate returned
  raw_listing,   \* listing.raw_listing
  passed_units,  \* listing._units
  inputs,        \* the inputs list of the main block
  input,         \* position of the main loop in inputs (0: not entered)
  attempted,     \* positions whose try body was entered, in order
  outcomes,      \* how the handling of each finished input ended
  row,           \* SpreadsheetBuilder.row
  label_cache,   \* SpreadsheetBuilder._label_cache: label -> cell
  worksheet,     \* title of SpreadsheetBuilder.worksheet
  existing,      \* titles of the worksheets of the spreadsheet
  updates,       \* the worksheet.update requests applied, in order
  call,          \* the wrapped call in progress or made last
  invocations,   \* the invocations of func made for it, with their ends
  price,         \* the price of a scenario
  percent_down,  \* the down-payment percentage of the scenario
  main_p,        \* p of calc_monthly_mortgage_payment under main.py
  script_p       \* p of calc_monthly_mortgage_payment under script.py

vars ==
  << pc, address, units, cache, cacheAtStart, estimates, unitIdx, attempt,
     acqFrom, nTor,
     torKills, brLaunched, brQuits, self_tor, self_browser, tor, button,
     subs, nDisabled, nAcq, recovered, seen, warned, fault, faultUnit,
     pages, eofReads, run, prevEstimates, raw_listing, passed_units,
     inputs, input, attempted, outcomes, row, label_cache, worksheet,
     existing, updates, call, invocations, price, percent_down, main_p,
     script_p >>

listingVars == << raw_listing, passed_units >>
runVars == << run, prevEstimates >>
mainVars == << inputs, input, attempted, outcomes >>
sheetVars ==
  << row, label_cache, worksheet, existing, updates, call, invocations >>
scenarioVars == << price, percent_down, main_p, script_p >>
otherVars == << mainVars, sheetVars, scenarioVars >>

\* The main block is not part of the behaviour.
NoMain ==
  /\ inputs = <<>>
  /\ input = 0
  /\ attempted = <<>>
  /\ outcomes = <<>>

\* ---- SpreadsheetBuilder values (src/main.py:583-698) ----

\* Labels and values of the tuples written, and str(value).
Labels == {"Price ($)", "Down (%)"}
Values == {5, 10}
Str(value) == IF value = 5 THEN "5" ELSE "10"

\* Worksheet titles: the default sheet1 and str(self.sheet_num).
Sheet1 == "Sheet1"
SheetNums == {"0", "1"}

\* f"A{self.row}", f"B{self.row}"
Cell(col, r) == [col |-> col, row |-> r]
NoCell == Cell("", 0)

\* A call of a method wrapped by gspread_retry, issued when self.row was r.
Call(func, args, r) == [func |-> func, args |-> args, row |-> r]
NoCall == Call("none", <<>>, 0)

\* How an invocation of the wrapped method ends: it completes, or a
\* request of it raises an APIError whose text has the code.
Completed == [ok |-> TRUE, code |-> 0]
APIError(code) == [ok |-> FALSE, code |-> code]
APIErrorCodes == {TooManyRequests, 403}

\* No SpreadsheetBuilder is part of the behaviour.
NoSheet ==
  /\ row = 1
  /\ label_cache = [l \in Labels |-> NoCell]
  /\ worksheet = Sheet1
  /\ existing = {Sheet1}
  /\ updates = <<>>
  /\ call = NoCall
  /\ invocations = <<>>

\* ---- scenario values (src/main.py:700-768, src/script.py:144-208) ----

\* The p of a call of calc_monthly_mortgage_payment, before and after it.
NoPrincipal == [set |-> FALSE, p |-> 0]
PrincipalOf(p) == [set |-> TRUE, p |-> p]

\* No scenario is part of the behaviour.
NoScenario ==
  /\ price = 0
  /\ percent_down = 0
  /\ main_p = NoPrincipal
  /\ script_p = NoPrincipal

Min(S) == CHOOSE x \in S : \A y \in S : x <= y

\* ---- pure helpers ----

\* Variant: a new group is appended for every estimate.
add_estimate_new_group(est, estimate_type, unit, monthly_rent) ==
  Append(est, [units |-> << [unit |-> unit, monthly_rent |-> monthly_rent] >>,
               type |-> estimate_type])

\* Variant: the found group's list is replaced instead of appended to.
add_estimate_replacing(est, estimate_type, unit, monthly_rent) ==
  LET found == { i \in 1..Len(est) : est[i].type = estimate_type }
      entry == [unit |-> unit, monthly_rent |-> monthly_rent]
  IN IF found = {}
       THEN Append(est, [units |-> <<entry>>, type |-> estimate_type])
       ELSE [est EXCEPT ![Min(found)].units = <<entry>>]

\* src/main.py:405-418
add_estimate(est, estimate_type, unit, monthly_rent) ==
  LET found == { i \in 1..Len(est) : est[i].type = estimate_type }
      entry == [unit |-> unit, monthly_rent |-> monthly_rent]
  IN IF found = {}
       THEN Append(est, [units |-> <<entry>>, type |-> estimate_type])
       ELSE [est EXCEPT ![Min(found)].units = Append(@, entry)]

\* Variant: the comparison with one bath is >= instead of ==.
BathFilterAtLeastOne(baths) ==
  IF baths >= OneBath THEN FilterOneAndHalfOrMore ELSE FilterAny

\* src/main.py:447-455: the option selected in the baths selector.
BathFilter(baths) ==
  IF baths = OneBath THEN FilterOneOnly
  ELSE IF baths > OneBath THEN FilterOneAndHalfOrMore
  ELSE FilterAny

\* Variant: the last branch of the chain is an else, so that a box of an
\* unknown kind is taken for the 75th percentile.
StatKindLastElse(box) ==
  IF "AVERAGE" \in box.words THEN AVERAGE
  ELSE IF "MEDIAN" \in box.words THEN MEDIAN
  ELSE IF "25TH PERCENTILE" \in box.words THEN PERCENTILE_25
  ELSE PERCENTILE_75

\* src/main.py:518-531: the elif chain over the text of a box.
StatKind(box) ==
  IF "AVERAGE" \in box.words THEN AVERAGE
  ELSE IF "MEDIAN" \in box.words THEN MEDIAN
  ELSE IF "25TH PERCENTILE" \in box.words THEN PERCENTILE_25
  ELSE IF "75TH PERCENTILE" \in box.words THEN PERCENTILE_75
  ELSE "unexpected"

\* src/main.py:499-503: four zero estimates for the unit.
RECURSIVE AddZeros(_, _, _)

\* Variant: each type gets its zero estimate twice.
AddZerosTwice(est, unit, i) ==
  IF i > Len(EstimateTypeOrder) THEN est
  ELSE AddZeros(add_estimate(add_estimate(est, EstimateTypeOrder[i], unit, 0),
                             EstimateTypeOrder[i], unit, 0), unit, i + 1)

AddZeros(est, unit, i) ==
  IF i > Len(EstimateTypeOrder) THEN est
  ELSE AddZeros(add_estimate(est, EstimateTypeOrder[i], unit, 0), unit, i + 1)

\* src/main.py:507-535: the loop over the boxes.  acc carries the collection,
\* the kinds whose local variable is non-zero, what was appended, and whether
\* extract_dollar_value raised.
RECURSIVE ParseStats(_, _, _, _)
ParseStats(stats, i, unit, acc) ==
  IF i > Len(stats) \/ acc.raised THEN acc
  ELSE LET kind == StatKind(stats[i])
       IN IF kind = "unexpected"
            THEN ParseStats(stats, i + 1, unit, acc)
          ELSE IF ~stats[i].parses
            THEN [acc EXCEPT !.raised = TRUE]
          ELSE ParseStats(stats, i + 1, unit,
                 [acc EXCEPT
                    !.est = add_estimate(@, kind, unit, stats[i].val),
                    !.nonzero = IF stats[i].val = 0 THEN @ \ {kind}
                                ELSE @ \cup {kind},
                    !.added = Append(@, <<kind, stats[i].val>>)])

\* Variant: the estimate file is never found.
CacheHitNever(c, a) == FALSE

\* src/main.py:393-398: open() finds the estimate file of the address.
CacheHit(c, a) == FileOf(c, a).present

\* Variant: the finally block leaves the cache directory alone.
CacheWriteNever(c, a, est) == c

\* Variant: the estimates are pickled whether or not any were made.
CacheWriteAlways(c, a, est) == [c EXCEPT ![EstimateDir(a)] = Entry(est)]

\* src/main.py:541-546: the estimates are pickled when any were made.
CacheWrite(c, a, est) ==
  IF est # <<>> THEN [c EXCEPT ![EstimateDir(a)] = Entry(est)] ELSE c

\* Variant: the close()/quit() or kill() is left out.
IssueNothing(count, id) == count

\* One more close()/quit() or kill() issued on the process id.
Issue(count, id) == [count EXCEPT ![id] = @ + 1]

\* Variant: the handler raises the exception again.
ExceptExceptionReraises == "raised"

\* src/main.py:536-538: the handler of the try block logs the exception;
\* control goes on into the finally block.
ExceptException == "finally"

\* Variant: the retry passes the unit's own bath count again.
ArgBathsOfUnit == units[unitIdx].baths

\* The baths argument of the current submission (src/main.py:485, 491).
ArgBaths == IF attempt = 1 THEN units[unitIdx].baths ELSE RetryBaths

\* Variant: the teardown leaves the browser of the pair running.
NukeBrowserStays == brQuits

\* src/main.py:373-385: quit the browser and kill TOR, each only when the
\* attribute is set.
NukeBrowserQuits ==
  IF self_browser = 0 THEN brQuits ELSE Issue(brQuits, self_browser)

\* Variant: kill() is issued on every TOR process started so far.
NukeTorKillsAll ==
  [i \in Sessions |-> IF i <= nTor THEN torKills[i] + 1 ELSE torKills[i]]

NukeTorKills ==
  IF self_tor = 0 THEN torKills ELSE Issue(torKills, self_tor)

\* ---- Listing.units (src/main.py:67-259) ----

\* What an extractor, or Listing.units, comes back with: a list of units,
\* or an exception.
Raised == [ok |-> FALSE, units |-> <<>>]
Extracted(l) == [ok |-> TRUE, units |-> l]

\* The Unit objects made from the "unit" sub-categories of a list, in order.
UnitsOfSubCategories(scs) ==
  LET IsUnit(sc) == sc.kind = "unit"
      sel == SelectSeq(scs, IsUnit)
  IN [i \in 1..Len(sel) |-> sel[i].unit]

\* src/main.py:67-143: IncongruentFormat when the detail is missing or any
\* sub-category is not a well-formed "Unit n".
units_from_Unit_Information(raw) ==
  LET d == raw.unit_information
  IN IF ~d.found THEN Raised
     ELSE IF \E i \in 1..Len(d.subCategories) :
                d.subCategories[i].kind # "unit" THEN Raised
     ELSE Extracted(UnitsOfSubCategories(d.subCategories))

\* src/main.py:145-234: sub-categories whose name does not match are
\* skipped; IncongruentFormat when the detail is missing or a sub-category
\* is malformed.
units_from_Multi_Family(raw) ==
  LET d == raw.multi_family
  IN IF ~d.found THEN Raised
     ELSE IF \E i \in 1..Len(d.subCategories) :
                d.subCategories[i].kind = "malformed" THEN Raised
     ELSE Extracted(UnitsOfSubCategories(d.subCategories))

\* Variant: the result of the extractors is returned without the check for
\* None or an empty list.
ListingUnitsUnchecked(raw, passed) ==
  IF passed.given /\ passed.list # <<>> THEN Extracted(passed.list)
  ELSE LET ui == units_from_Unit_Information(raw)
       IN IF ui.ok THEN ui ELSE Extracted(units_from_Multi_Family(raw).units)

\* src/main.py:236-259: the passed units when the list is truthy; else the
\* list of the first extractor that does not raise IncongruentFormat, and
\* an exception when there is none or that list is empty.
ListingUnits(raw, passed) ==
  IF passed.given /\ passed.list # <<>> THEN Extracted(passed.list)
  ELSE LET ui == units_from_Unit_Information(raw)
           found == IF ui.ok THEN ui ELSE units_from_Multi_Family(raw)
       IN IF ~found.ok \/ found.units = <<>> THEN Raised ELSE found

\* ---- initial state: a fresh RentEstimator, a listing, a cache directory ----
Init ==
  /\ pc = "start"
  /\ address = ListingAddress
  /\ units \in Listings
  /\ cache \in CacheDirs(units)
  /\ cacheAtStart = cache
  /\ estimates = <<>>
  /\ unitIdx = 0
  /\ attempt = 1
  /\ acqFrom = "estimate"
  /\ nTor = 0
  /\ torKills = [i \in Sessions |-> 0]
  /\ brLaunched = {}
  /\ brQuits = [i \in Sessions |-> 0]
  /\ self_tor = 0
  /\ self_browser = 0
  /\ tor = 0
  /\ button = 0
  /\ subs = <<>>
  /\ nDisabled = 0
  /\ nAcq = 0
  /\ recovered = {}
  /\ seen = [i \in 1..Len(units) |-> <<>>]
  /\ warned = {}
  /\ fault = "none"
  /\ faultUnit = 0
  /\ pages = [i \in 1..Len(units) |-> <<>>]
  /\ eofReads = 0
  /\ run = 1
  /\ prevEstimates = <<>>
  /\ raw_listing = NoUnitDetails
  /\ passed_units = Passed(units)
  /\ NoMain
  /\ NoSheet
  /\ NoScenario

\* ---- estimate: the cache check (src/main.py:387-403) ----
CacheCheck ==
  /\ pc = "start"
  /\ IF CacheHit(cache, address)
       THEN /\ estimates' = FileOf(cache, address).estimates
            /\ pc' = "returned"
       ELSE /\ estimates' = <<>>
            /\ pc' = "acq_tor"
  /\ UNCHANGED << otherVars, listingVars, runVars, eofReads, pages, address,
                  units, cache, cacheAtStart, unitIdx, attempt,
                  acqFrom, nTor, torKills, brLaunched, brQuits, self_tor,
                  self_browser, tor, button, subs, nDisabled, nAcq,
                  recovered, seen, warned, fault, faultUnit >>

\* ---- _get_unthrottled_tor_browser (src/main.py:312-371) ----

\* subprocess.Popen(TOR_PATH)
StartTor ==
  /\ pc = "acq_tor"
  /\ nTor < MaxSessions
  /\ nTor' = nTor + 1
  /\ tor' = nTor + 1
  /\ pc' = "acq_wait"
  /\ UNCHANGED << otherVars, listingVars, runVars, eofReads, pages, address,
                  units, cache, cacheAtStart, estimates, unitIdx,
                  attempt, acqFrom, torKills, brLaunched, brQuits,
                  self_tor, self_browser, button, subs, nDisabled, nAcq,
                  recovered, seen, warned, fault, faultUnit >>

\* Variant: the loop goes on reading after the marker.
MarkerReadOver == "acq_wait"

\* src/main.py:341-345: the break of the readline loop at the marker.
MarkerRead == "acq_browser"

\* the readline loop reads the "100% (done): Done" line
TorReady ==
  /\ pc = "acq_wait"
  /\ eofReads = 0
  /\ pc' = MarkerRead
  /\ UNCHANGED << otherVars, listingVars, runVars, eofReads, pages, address,
                  units, cache, cacheAtStart, estimates, unitIdx,
                  attempt, acqFrom, nTor, torKills, brLaunched, brQuits,
                  self_tor, self_browser, tor, button, subs, nDisabled,
                  nAcq, recovered, seen, warned, fault, faultUnit >>

\* src/main.py:341-345: the TOR process has exited or closed its output
\* before printing the marker; readline returns b"" at once, the marker is
\* not in it, and the while True loop goes round again.
ReadEOF ==
  /\ pc = "acq_wait"
  /\ eofReads < MaxEofReads
  /\ eofReads' = eofReads + 1
  /\ pc' = "acq_wait"
  /\ UNCHANGED << otherVars, listingVars, runVars, pages, address,
                  units, cache, cacheAtStart, estimates, unitIdx,
                  attempt, acqFrom, nTor, torKills, brLaunched, brQuits,
                  self_tor, self_browser, tor, button, subs, nDisabled,
                  nAcq, recovered, seen, warned, fault, faultUnit >>

\* webdriver.Firefox(...)
OpenBrowser ==
  /\ pc = "acq_browser"
  /\ brLaunched' = brLaunched \cup {tor}
  /\ pc' = "acq_probe"
  /\ UNCHANGED << otherVars, listingVars, runVars, eofReads, pages, address,
                  units, cache, cacheAtStart, estimates, unitIdx,
                  attempt, acqFrom, nTor, torKills, brQuits, self_tor,
                  self_browser, tor, button, subs, nDisabled, nAcq,
                  recovered, seen, warned, fault, faultUnit >>

\* browser.get, the look at the Analyze button, and either the teardown of
\* the throttled pair or the return of the pair to the caller, who assigns
\* it to self.tor, self.browser (src/main.py:421, 432).
ProbeThrottled ==
  /\ pc = "acq_probe"
  /\ nTor < MaxSessions
  /\ nDisabled' = nDisabled + 1
  /\ brQuits' = Issue(brQuits, tor)
  /\ torKills' = Issue(torKills, tor)
  /\ pc' = "acq_tor"
  /\ UNCHANGED << otherVars, listingVars, runVars, eofReads, pages, address,
                  units, cache, cacheAtStart, estimates, unitIdx,
                  attempt, acqFrom, nTor, brLaunched, self_tor,
                  self_browser, tor, button, subs, nAcq, recovered, seen,
                  warned, fault, faultUnit >>

ProbeEnabled ==
  /\ pc = "acq_probe"
  /\ self_tor' = tor
  /\ self_browser' = tor
  /\ nAcq' = nAcq + 1
  /\ IF acqFrom = "estimate"
       THEN /\ unitIdx' = 1
            /\ attempt' = 1
            /\ pc' = "find_button"
       ELSE /\ pc' = "submit"
            /\ UNCHANGED << unitIdx, attempt >>
  /\ UNCHANGED << otherVars, listingVars, runVars, eofReads, pages, address,
                  units, cache, cacheAtStart, estimates, acqFrom,
                  nTor, torKills, brLaunched, brQuits, tor, button, subs,
                  nDisabled, recovered, seen, warned, fault, faultUnit >>

\* ---- enter_listing_info_and_click_analyze (src/main.py:423-459) ----

\* lines 428-432: find the Analyze button; when it is disabled, nuke the
\* pair and go for a new one.
FindButtonEnabled ==
  /\ pc = "find_button"
  /\ button' = self_browser
  /\ pc' = "submit"
  /\ UNCHANGED << otherVars, listingVars, runVars, eofReads, pages, address,
                  units, cache, cacheAtStart, estimates, unitIdx,
                  attempt, acqFrom, nTor, torKills, brLaunched, brQuits,
                  self_tor, self_browser, tor, subs, nDisabled, nAcq,
                  recovered, seen, warned, fault, faultUnit >>

FindButtonDisabled ==
  /\ pc = "find_button"
  /\ nTor < MaxSessions
  /\ button' = self_browser
  /\ brQuits' = NukeBrowserQuits
  /\ torKills' = NukeTorKills
  /\ recovered' = recovered \cup {<<unitIdx, attempt>>}
  /\ acqFrom' = "recover"
  /\ pc' = "acq_tor"
  /\ UNCHANGED << otherVars, listingVars, runVars, eofReads, pages, address,
                  units, cache, cacheAtStart, estimates, unitIdx,
                  attempt, nTor, brLaunched, self_tor, self_browser, tor,
                  subs, nDisabled, nAcq, seen, warned, fault, faultUnit >>

\* lines 434-459: fill the form in self.browser, then click analyze_button.
\* The element found at line 428 belongs to the browser it was found in; a
\* click on it after that browser was quit raises.
Submit ==
  /\ pc = "submit"
  /\ IF brQuits[button] > 0
       THEN /\ fault' = "stale"
            /\ faultUnit' = unitIdx
            /\ pc' = ExceptException
            /\ UNCHANGED subs
       ELSE /\ subs' = Append(subs,
                 [unit |-> unitIdx, attempt |-> attempt,
                  address |-> address, beds |-> units[unitIdx].beds,
                  baths |-> ArgBaths, filter |-> BathFilter(ArgBaths),
                  browser |-> button, response |-> "pending"])
            /\ pc' = "check"
            /\ UNCHANGED << fault, faultUnit >>
  /\ UNCHANGED << otherVars, listingVars, runVars, eofReads, pages, address,
                  units, cache, cacheAtStart, estimates, unitIdx,
                  attempt, acqFrom, nTor, torKills, brLaunched, brQuits,
                  self_tor, self_browser, tor, button, nDisabled, nAcq,
                  recovered, seen, warned >>

\* ---- the per-unit loop (src/main.py:483-535) ----

\* The loop head after the body of unit unitIdx ran to its end.
NextUnit ==
  IF unitIdx < Len(units)
    THEN /\ unitIdx' = unitIdx + 1
         /\ attempt' = 1
         /\ pc' = "find_button"
    ELSE /\ pc' = "finally"
         /\ UNCHANGED << unitIdx, attempt >>

ZerosAdded ==
  [i \in 1..Len(EstimateTypeOrder) |-> <<EstimateTypeOrder[i], 0>>]

SetResponse(r) == [subs EXCEPT ![Len(subs)].response = r]

\* check_not_enough_results (lines 464-481) finds no banner.
CheckEnough ==
  /\ pc = "check"
  /\ subs' = SetResponse("results")
  /\ pc' = "stats"
  /\ UNCHANGED << otherVars, listingVars, runVars, eofReads, pages, address,
                  units, cache, cacheAtStart, estimates, unitIdx,
                  attempt, acqFrom, nTor, torKills, brLaunched, brQuits,
                  self_tor, self_browser, tor, button, nDisabled, nAcq,
                  recovered, seen, warned, fault, faultUnit >>

\* check_not_enough_results raises NotEnoughResults: the first time the
\* unit is submitted again with baths -1 (lines 489-491), the second time
\* four zero estimates are added (lines 494-504) and, the continue being
\* the inner loop's, control falls through to line 507.
CheckNotEnough ==
  /\ pc = "check"
  /\ subs' = SetResponse("not enough")
  /\ IF attempt = 1
       THEN /\ attempt' = 2
            /\ pc' = "find_button"
            /\ UNCHANGED << estimates, seen >>
       ELSE /\ estimates' = AddZeros(estimates, unitIdx, 1)
            /\ seen' = [seen EXCEPT ![unitIdx] = @ \o ZerosAdded]
            /\ pc' = "stats"
            /\ UNCHANGED attempt
  /\ UNCHANGED << otherVars, listingVars, runVars, eofReads, pages, address,
                  units, cache, cacheAtStart, unitIdx, acqFrom,
                  nTor, torKills, brLaunched, brQuits, self_tor,
                  self_browser, tor, button, nDisabled, nAcq, recovered,
                  warned, fault, faultUnit >>

\* lines 507-535: read the statistic boxes of the current page.
Stats ==
  /\ pc = "stats"
  /\ \E stats \in StatPages :
       LET r == ParseStats(stats, 1, unitIdx,
                  [est |-> estimates, nonzero |-> {}, added |-> <<>>,
                   raised |-> FALSE])
       IN /\ estimates' = r.est
          /\ seen' = [seen EXCEPT ![unitIdx] = @ \o r.added]
          /\ pages' = [pages EXCEPT ![unitIdx] = Append(@, stats)]
          /\ IF r.raised
               THEN /\ fault' = "env"
                    /\ faultUnit' = unitIdx
                    /\ pc' = ExceptException
                    /\ UNCHANGED << unitIdx, attempt, warned >>
               ELSE /\ warned' = IF r.nonzero # EstimateType
                                   THEN warned \cup {unitIdx} ELSE warned
                    /\ NextUnit
                    /\ UNCHANGED << fault, faultUnit >>
  /\ UNCHANGED << otherVars, listingVars, runVars, eofReads, address,
                  units, cache, cacheAtStart, acqFrom, nTor,
                  torKills, brLaunched, brQuits, self_tor, self_browser,
                  tor, button, subs, nDisabled, nAcq, recovered >>

\* ---- the run-level handler (src/main.py:536-538) ----

\* The calls that can raise: Popen, webdriver.Firefox, browser.get and the
\* find_element calls.  The local tor and browser of an acquisition that
\* raises are lost with its frame.
RaisePoints ==
  {"acq_tor", "acq_browser", "acq_probe", "find_button", "submit", "check",
   "stats"}

Raise ==
  /\ pc \in RaisePoints
  /\ fault' = "env"
  /\ faultUnit' = unitIdx
  /\ pc' = ExceptException
  /\ UNCHANGED << otherVars, listingVars, runVars, eofReads, pages, address,
                  units, cache, cacheAtStart, estimates, unitIdx,
                  attempt, acqFrom, nTor, torKills, brLaunched, brQuits,
                  self_tor, self_browser, tor, button, subs, nDisabled,
                  nAcq, recovered, seen, warned >>

\* ---- finally (src/main.py:539-549) ----

\* The cache is written when estimates were made, then the pair is nuked
\* and self.estimates returned.
Finalize ==
  /\ pc = "finally"
  /\ cache' = CacheWrite(cache, address, estimates)
  /\ brQuits' = NukeBrowserQuits
  /\ torKills' = NukeTorKills
  /\ pc' = "returned"
  /\ UNCHANGED << otherVars, listingVars, runVars, eofReads, pages, address,
                  units, cacheAtStart, estimates, unitIdx,
                  attempt, acqFrom, nTor, brLaunched, self_tor,
                  self_browser, tor, button, subs, nDisabled, nAcq,
                  recovered, seen, warned, fault, faultUnit >>

\* os.mkdir or open raises while the cache is written: the exception leaves
\* the finally block before _nuke_tor_browser is reached.
FinalizeRaise ==
  /\ pc = "finally"
  /\ estimates # <<>>
  /\ pc' = "raised"
  /\ UNCHANGED << otherVars, listingVars, runVars, eofReads, pages, address,
                  units, cache, cacheAtStart, estimates, unitIdx,
                  attempt, acqFrom, nTor, torKills, brLaunched, brQuits,
                  self_tor, self_browser, tor, button, subs, nDisabled,
                  nAcq, recovered, seen, warned, fault, faultUnit >>

\* ---- estimate is called again for the listing (src/main.py:826-834) ----

\* After a call that returned estimates, the listing is given to a new
\* RentEstimator (a later pass of the main loop, or a later start of the
\* program, over the same input).  The cache directory is what the earlier
\* call left; the bookkeeping of processes starts over, as it tells what
\* this call started.
NextRun ==
  /\ pc = "returned"
  /\ estimates # <<>>
  /\ run < MaxRuns
  /\ run' = run + 1
  /\ prevEstimates' = estimates
  /\ pc' = "start"
  /\ cacheAtStart' = cache
  /\ estimates' = <<>>
  /\ unitIdx' = 0
  /\ attempt' = 1
  /\ acqFrom' = "estimate"
  /\ nTor' = 0
  /\ torKills' = [i \in Sessions |-> 0]
  /\ brLaunched' = {}
  /\ brQuits' = [i \in Sessions |-> 0]
  /\ self_tor' = 0
  /\ self_browser' = 0
  /\ tor' = 0
  /\ button' = 0
  /\ subs' = <<>>
  /\ nDisabled' = 0
  /\ nAcq' = 0
  /\ recovered' = {}
  /\ seen' = [i \in 1..Len(units) |-> <<>>]
  /\ warned' = {}
  /\ fault' = "none"
  /\ faultUnit' = 0
  /\ pages' = [i \in 1..Len(units) |-> <<>>]
  /\ eofReads' = 0
  /\ UNCHANGED << otherVars, listingVars, address, units, cache >>

Next ==
  \/ CacheCheck
  \/ StartTor
  \/ TorReady
  \/ ReadEOF
  \/ OpenBrowser
  \/ ProbeThrottled
  \/ ProbeEnabled
  \/ FindButtonEnabled
  \/ FindButtonDisabled
  \/ Submit
  \/ CheckEnough
  \/ CheckNotEnough
  \/ Stats
  \/ Raise
  \/ Finalize
  \/ FinalizeRaise
  \/ NextRun

Spec == Init /\ [][Next]_vars

\* ---- estimate with an environment that answers ----

\* Every TOR process started prints the marker, so that no read is from a
\* closed output; every call of estimate's body returns or raises; the
\* Analyze button is found disabled at most MaxSessions - 1 times.  A step
\* that can be taken is taken in the end.  The listings are those whose
\* units are all alike: how long the loops of estimate go on depends on
\* the number of units and on the answers, not on beds and baths.
InitAnswered == Init /\ \A i \in 1..Len(units) : units[i] = units[1]

NextAnswered ==
  \/ CacheCheck
  \/ StartTor
  \/ TorReady
  \/ OpenBrowser
  \/ ProbeThrottled
  \/ ProbeEnabled
  \/ FindButtonEnabled
  \/ FindButtonDisabled
  \/ Submit
  \/ CheckEnough
  \/ CheckNotEnough
  \/ Stats
  \/ Raise
  \/ Finalize
  \/ FinalizeRaise
  \/ NextRun

SpecAnswered ==
  InitAnswered /\ [][NextAnswered]_vars /\ WF_vars(NextAnswered)

\* ---- one pass of the main loop up to the cache check ----

\* An input of the main loop before its Listing is constructed: a raw
\* listing, the units passed along with it, a cache directory.
InitListing ==
  /\ pc = "construct"
  /\ raw_listing \in RawListings
  /\ passed_units \in PassedUnits
  /\ address = ListingAddress
  /\ units = <<>>
  /\ cache \in CacheDirs(passed_units.list)
  /\ cacheAtStart = cache
  /\ estimates = <<>>
  /\ unitIdx = 0
  /\ attempt = 1
  /\ acqFrom = "estimate"
  /\ nTor = 0
  /\ torKills = [i \in Sessions |-> 0]
  /\ brLaunched = {}
  /\ brQuits = [i \in Sessions |-> 0]
  /\ self_tor = 0
  /\ self_browser = 0
  /\ tor = 0
  /\ button = 0
  /\ subs = <<>>
  /\ nDisabled = 0
  /\ nAcq = 0
  /\ recovered = {}
  /\ seen = <<>>
  /\ warned = {}
  /\ fault = "none"
  /\ faultUnit = 0
  /\ pages = <<>>
  /\ eofReads = 0
  /\ run = 1
  /\ prevEstimates = <<>>
  /\ NoMain
  /\ NoSheet
  /\ NoScenario

\* src/main.py:829 and 32-40: from_raw constructs the Listing, whose
\* __init__ evaluates every property through inspect.getmembers.  An
\* exception of Listing.units leaves the constructor and is caught by the
\* handler of the main loop (861-863), which goes on to the next input.
Construct ==
  /\ pc = "construct"
  /\ LET r == ListingUnits(raw_listing, passed_units)
     IN IF r.ok
          THEN /\ units' = r.units
               /\ seen' = [i \in 1..Len(r.units) |-> <<>>]
               /\ pages' = [i \in 1..Len(r.units) |-> <<>>]
               /\ pc' = "listed"
          ELSE /\ pc' = "failed"
               /\ UNCHANGED << units, seen, pages >>
  /\ UNCHANGED << otherVars, listingVars, runVars, eofReads, address,
                  cache, cacheAtStart, estimates, unitIdx,
                  attempt, acqFrom, nTor, torKills, brLaunched, brQuits,
                  self_tor, self_browser, tor, button, subs, nDisabled,
                  nAcq, recovered, warned, fault, faultUnit >>

\* src/main.py:833-834: a RentEstimator is made and estimate is called.
CallEstimate ==
  /\ pc = "listed"
  /\ pc' = "start"
  /\ UNCHANGED << otherVars, listingVars, runVars, eofReads, pages, address,
                  units, cache, cacheAtStart, estimates, unitIdx,
                  attempt, acqFrom, nTor, torKills, brLaunched, brQuits,
                  self_tor, self_browser, tor, button, subs, nDisabled,
                  nAcq, recovered, seen, warned, fault, faultUnit >>

NextListing ==
  \/ Construct
  \/ CallEstimate
  \/ CacheCheck

SpecListing == InitListing /\ [][NextListing]_vars

\* ---- the main block (src/main.py:814-866) ----

\* The variables of one call of estimate, all but the position.
estimateVars ==
  << address, units, cache, cacheAtStart, estimates, unitIdx, attempt,
     acqFrom, nTor, torKills, brLaunched, brQuits, self_tor, self_browser,
     tor, button, subs, nDisabled, nAcq, recovered, seen, warned, fault,
     faultUnit, pages, eofReads >>

\* No call of estimate is part of the behaviour.
NoEstimate ==
  /\ address = ListingAddress
  /\ units = <<>>
  /\ cache = [d \in Addresses |-> NoEntry]
  /\ cacheAtStart = cache
  /\ estimates = <<>>
  /\ unitIdx = 0
  /\ attempt = 1
  /\ acqFrom = "estimate"
  /\ nTor = 0
  /\ torKills = [i \in Sessions |-> 0]
  /\ brLaunched = {}
  /\ brQuits = [i \in Sessions |-> 0]
  /\ self_tor = 0
  /\ self_browser = 0
  /\ tor = 0
  /\ button = 0
  /\ subs = <<>>
  /\ nDisabled = 0
  /\ nAcq = 0
  /\ recovered = {}
  /\ seen = <<>>
  /\ warned = {}
  /\ fault = "none"
  /\ faultUnit = 0
  /\ pages = <<>>
  /\ eofReads = 0
  /\ run = 1
  /\ prevEstimates = <<>>
  /\ raw_listing = NoUnitDetails
  /\ passed_units = NotPassed

\* The inputs list: urls, the same url possibly more than once.
Urls == {"u1", "u2"}
InputLists == UNION { [1..n -> Urls] : n \in 0..MaxInputs }

InitMain ==
  /\ pc = "for"
  /\ inputs \in InputLists
  /\ input = 0
  /\ attempted = <<>>
  /\ outcomes = <<>>
  /\ NoEstimate
  /\ NoSheet
  /\ NoScenario

\* src/main.py:826-827: the for statement takes the next input and the try
\* body is entered.
ForNext ==
  /\ pc = "for"
  /\ input < Len(inputs)
  /\ input' = input + 1
  /\ attempted' = Append(attempted, input + 1)
  /\ pc' = "get"
  /\ UNCHANGED << inputs, outcomes, estimateVars, sheetVars, listingVars,
                  runVars,
                  scenarioVars >>

\* src/main.py:828: requests.get returns the page.
Get ==
  /\ pc = "get"
  /\ pc' = "from_raw"
  /\ UNCHANGED << mainVars, estimateVars, sheetVars, listingVars,
                  runVars,
                  scenarioVars >>

\* src/main.py:829-831: the Listing is constructed and its logger made.
FromRaw ==
  /\ pc = "from_raw"
  /\ pc' = "estimate"
  /\ UNCHANGED << mainVars, estimateVars, sheetVars, listingVars,
                  runVars,
                  scenarioVars >>

\* src/main.py:833-834: estimate returns the collection.
Estimate ==
  /\ pc = "estimate"
  /\ pc' = "build"
  /\ UNCHANGED << mainVars, estimateVars, sheetVars, listingVars,
                  runVars,
                  scenarioVars >>

\* src/main.py:341-345 under 834: estimate is in the readline loop of a TOR
\* process that ended without the marker, and does not come back.
EstimateLoops ==
  /\ pc = "estimate"
  /\ pc' = "looping"
  /\ UNCHANGED << mainVars, estimateVars, sheetVars, listingVars,
                  runVars,
                  scenarioVars >>

\* src/main.py:835-859: the SpreadsheetBuilder is made and the spreadsheet
\* built; the for statement is reached again.
BuildSpreadsheet ==
  /\ pc = "build"
  /\ outcomes' = Append(outcomes, "built")
  /\ pc' = "for"
  /\ UNCHANGED << inputs, input, attempted, estimateVars, sheetVars,
                  listingVars, runVars,
                  scenarioVars >>

\* A call of the try body raises an Exception (src/main.py:828-859).
TryBody == {"get", "from_raw", "estimate", "build"}

RaiseInTry ==
  /\ pc \in TryBody
  /\ outcomes' = Append(outcomes, pc)
  /\ pc' = "except"
  /\ UNCHANGED << inputs, input, attempted, estimateVars, sheetVars,
                  listingVars, runVars,
                  scenarioVars >>

\* Variant: the handler leaves the loop.
ExceptBreak == "exit"

\* src/main.py:860-862: the handler logs the exception and continues with
\* the for statement.
ExceptContinue == "for"

Except ==
  /\ pc = "except"
  /\ pc' = ExceptContinue
  /\ UNCHANGED << mainVars, estimateVars, sheetVars, listingVars,
                  runVars,
                  scenarioVars >>

\* src/main.py:864-866: the list is exhausted; exit(0).
ForEnd ==
  /\ pc = "for"
  /\ input = Len(inputs)
  /\ pc' = "exit"
  /\ UNCHANGED << mainVars, estimateVars, sheetVars, listingVars,
                  runVars,
                  scenarioVars >>

NextMain ==
  \/ ForNext
  \/ Get
  \/ FromRaw
  \/ Estimate
  \/ EstimateLoops
  \/ BuildSpreadsheet
  \/ RaiseInTry
  \/ Except
  \/ ForEnd

SpecMain == InitMain /\ [][NextMain]_vars

\* The inputs whose try body is in progress.
InProgress == IF pc \in TryBody \cup {"looping"} THEN {input} ELSE {}

\* ---- SpreadsheetBuilder and gspread_retry ----
\* (src/main.py:583-698, src/utils.py:35-52)

\* A SpreadsheetBuilder after __init__: row 1, an empty label cache, sheet1
\* the active worksheet of a spreadsheet that was created or found.
InitSheet ==
  /\ pc = "build_spreadsheet"
  /\ row = 1
  /\ label_cache = [l \in Labels |-> NoCell]
  /\ worksheet = Sheet1
  /\ existing \in { {Sheet1} \cup e : e \in SUBSET SheetNums }
  /\ updates = <<>>
  /\ call = NoCall
  /\ invocations = <<>>
  /\ NoMain
  /\ NoEstimate
  /\ NoScenario

\* The 429 answers among the invocations made for the call.
Retries ==
  Cardinality({ i \in 1..Len(invocations) :
                  invocations[i].end = APIError(TooManyRequests) })

\* An invocation of the call's method with the call's arguments, and its
\* end (src/utils.py:43, 48: func(*args, **kwargs)).
Invocation(end) == [func |-> call.func, args |-> call.args, end |-> end]

\* build_spreadsheet calls self._write_tuple(label, value)
\* (src/main.py:714-803), in a scenario, whose worksheet was switched to:
\* the wrapper is entered.
CallWriteTuple ==
  /\ pc = "build_spreadsheet"
  /\ worksheet # Sheet1
  /\ Len(updates) < MaxRow
  /\ \E label \in Labels, value \in Values :
       call' = Call("_write_tuple", << label, value >>, row)
  /\ invocations' = <<>>
  /\ pc' = "wrapper"
  /\ UNCHANGED << row, label_cache, worksheet, existing, updates, mainVars,
                  estimateVars, listingVars, runVars,
                  scenarioVars >>

\* self.sheet_num, which is 0 at first and one more after each scenario
\* (src/main.py:594, 805), and str(self.sheet_num).
sheet_num == IF worksheet = Sheet1 THEN 0 ELSE IF worksheet = "0" THEN 1 ELSE 2
StrOfNum(n) == IF n = 0 THEN "0" ELSE "1"

\* A scenario of build_spreadsheet begins: it calls
\* self._get_or_create_worksheet(str(self.sheet_num)) (src/main.py:711).
CallGetOrCreateWorksheet ==
  /\ pc = "build_spreadsheet"
  /\ sheet_num < Cardinality(SheetNums)
  /\ call' = Call("_get_or_create_worksheet", << StrOfNum(sheet_num) >>, row)
  /\ invocations' = <<>>
  /\ pc' = "wrapper"
  /\ UNCHANGED << row, label_cache, worksheet, existing, updates, mainVars,
                  estimateVars, listingVars, runVars,
                  scenarioVars >>

\* src/main.py:693-695
skip_line ==
  /\ pc = "build_spreadsheet"
  /\ row < MaxRow
  /\ row' = row + 1
  /\ pc' = pc
  /\ UNCHANGED << label_cache, worksheet, existing, updates, call,
                  invocations, mainVars, estimateVars, listingVars,
                  runVars,
                  scenarioVars >>

\* Variant: every APIError is retried.
RetriedAlways(code) == TRUE

\* src/utils.py:45: "'code': 429" in str(e)
Retried(code) == code = TooManyRequests

\* src/utils.py:41-50: where the wrapper goes on after an invocation: back
\* to its caller when func completed, into wrapper(*args, **kwargs) again
\* after a 429, out with the exception after another APIError.
wrapper(end) ==
  IF end.ok THEN "build_spreadsheet"
  ELSE IF Retried(end.code) THEN "wrapper" ELSE "propagated"

\* Variant: the row is advanced before the update request is made.
RowAdvancedFirst(r) == r + 1

\* src/main.py:686-691: worksheet.update is the first statement of
\* _write_tuple that touches anything; when it raises, self.row is what
\* it was.
RowAfterFailedUpdate(r) == r

\* src/main.py:685-691: an invocation of _write_tuple that completes.
WriteTuple ==
  /\ pc = "wrapper"
  /\ call.func = "_write_tuple"
  /\ LET label == call.args[1]
         value == call.args[2]
     IN /\ updates' = Append(updates,
                        [worksheet |-> worksheet, range |-> Cell("A", row),
                         values |-> << label, Str(value) >>])
        /\ label_cache' = [label_cache EXCEPT ![label] = Cell("B", row)]
  /\ row' = row + 1
  /\ invocations' = Append(invocations, Invocation(Completed))
  /\ pc' = wrapper(Completed)
  /\ UNCHANGED << worksheet, existing, call, mainVars, estimateVars,
                  listingVars, runVars,
                  scenarioVars >>

\* src/main.py:685-689: worksheet.update raises an APIError.
WriteTupleFails ==
  /\ pc = "wrapper"
  /\ call.func = "_write_tuple"
  /\ \E code \in APIErrorCodes :
       /\ code = TooManyRequests => Retries < MaxRetries
       /\ invocations' = Append(invocations, Invocation(APIError(code)))
       /\ pc' = wrapper(APIError(code))
  /\ row' = RowAfterFailedUpdate(row)
  /\ UNCHANGED << label_cache, worksheet, existing, updates, call,
                  mainVars, estimateVars, listingVars, runVars,
                  scenarioVars >>

\* src/main.py:672-682: an invocation of _get_or_create_worksheet that
\* completes: the worksheet is found, or added, and the row set to 1.
GetOrCreateWorksheet ==
  /\ pc = "wrapper"
  /\ call.func = "_get_or_create_worksheet"
  /\ worksheet' = call.args[1]
  /\ existing' = existing \cup {call.args[1]}
  /\ row' = 1
  /\ invocations' = Append(invocations, Invocation(Completed))
  /\ pc' = wrapper(Completed)
  /\ UNCHANGED << label_cache, updates, call, mainVars, estimateVars,
                  listingVars, runVars,
                  scenarioVars >>

\* src/main.py:672-680: sh.worksheet or sh.add_worksheet raises an
\* APIError; self.worksheet and self.row are not assigned.
GetOrCreateWorksheetFails ==
  /\ pc = "wrapper"
  /\ call.func = "_get_or_create_worksheet"
  /\ \E code \in APIErrorCodes :
       /\ code = TooManyRequests => Retries < MaxRetries
       /\ invocations' = Append(invocations, Invocation(APIError(code)))
       /\ pc' = wrapper(APIError(code))
  /\ UNCHANGED << row, label_cache, worksheet, existing, updates, call,
                  mainVars, estimateVars, listingVars, runVars,
                  scenarioVars >>

NextSheet ==
  \/ CallWriteTuple
  \/ CallGetOrCreateWorksheet
  \/ skip_line
  \/ WriteTuple
  \/ WriteTupleFails
  \/ GetOrCreateWorksheet
  \/ GetOrCreateWorksheetFails

SpecSheet == InitSheet /\ [][NextSheet]_vars

\* The end of the invocation made last for the call.
LastEnd == invocations[Len(invocations)].end

\* ---- the mortgage payment of a scenario ----
\* (src/main.py:700-768, src/script.py:68-104 and 144-208, src/utils.py:8-32)

\* Prices, whole multiples of 100000 dollars, and percentages, the 5 of
\* both main blocks among them.  With them price * (percent / 100) is a
\* whole number of dollars.
Prices == { 100000 * k : k \in 1..MaxPrice }
Percentages == {0, 3, 5, 20, 100}

\* src/utils.py:31-32 and src/script.py:68-69
calc_down_payment(price_, percent_down_) == (price_ * percent_down_) \div 100

\* src/utils.py:26 and src/script.py:102: p = price - down_payment, the
\* principal that _calc_monthly_payment is called with.
Principal(price_, down_payment) == price_ - down_payment

\* A scenario: a price and a down-payment percentage of the params.
InitScenario ==
  /\ pc = "scenario"
  /\ price \in Prices
  /\ percent_down \in Percentages
  /\ main_p = NoPrincipal
  /\ script_p = NoPrincipal
  /\ NoMain
  /\ NoEstimate
  /\ NoSheet

\* src/main.py:754-768: down_payment = calc_down_payment(price,
\* down_payment_rate), and calc_monthly_mortgage_payment is called with
\* down_payment=down_payment.
BuildSpreadsheetScenario ==
  /\ pc = "scenario"
  /\ ~main_p.set
  /\ LET down_payment == calc_down_payment(price, percent_down)
     IN main_p' = PrincipalOf(Principal(price, down_payment))
  /\ pc' = pc
  /\ UNCHANGED << price, percent_down, script_p, mainVars, sheetVars,
                  estimateVars, listingVars, run, prevEstimates >>

\* src/script.py:144-208: _down_payment = listing.calc_down_payment(
\* down_payment) is printed and added to the upfront cost; the call at
\* 204-205 is listing.calc_monthly_mortgage_payment(yearly_mortgage_rate,
\* down_payment), with the down_payment of the for statement at 146, an
\* element of params.down_payments.
GenerateScenario ==
  /\ pc = "scenario"
  /\ ~script_p.set
  /\ LET down_payment == percent_down
         _down_payment == calc_down_payment(price, down_payment)
     IN script_p' = PrincipalOf(Principal(price, down_payment))
  /\ pc' = pc
  /\ UNCHANGED << price, percent_down, main_p, mainVars, sheetVars,
                  estimateVars, listingVars, run, prevEstimates >>

NextScenario ==
  \/ BuildSpreadsheetScenario
  \/ GenerateScenario

SpecScenario == InitScenario /\ [][NextScenario]_vars

\* ---- views of the state used by the properties ----

Ended == pc \in {"returned", "raised"}
MissedCache == ~FileOf(cacheAtStart, address).present
UnitIds == 1..Len(units)

\* The units list of the group of type t (empty when there is no group).
GroupUnits(est, t) ==
  LET found == { i \in 1..Len(est) : est[i].type = t }
  IN IF found = {} THEN <<>> ELSE est[Min(found)].units

\* The rents recorded for unit u in the group of type t, in order.
RentsOf(est, u, t) ==
  LET OfUnit(e) == e.unit = u
      sel == SelectSeq(GroupUnits(est, t), OfUnit)
  IN [i \in 1..Len(sel) |-> sel[i].monthly_rent]

\* The rents of type t that the processing of unit u appended, in order.
SeenRents(u, t) ==
  LET OfType(p) == p[1] = t
      sel == SelectSeq(seen[u], OfType)
  IN [i \in 1..Len(sel) |-> sel[i][2]]

SubsOf(u) == { i \in DOMAIN subs : subs[i].unit = u }

\* Both the exact-bath and the broadened submission of u were answered with
\* the insufficient-results banner.
DoubleFailure(u) ==
  \E i, j \in SubsOf(u) :
    /\ i < j
    /\ subs[i].response = "not enough"
    /\ subs[j].response = "not enough"

\* The run holds a pair it got from _get_unthrottled_tor_browser.
HoldingPair == pc \in {"find_button", "submit", "check", "stats"}

\* ---- properties ----

\* C1: when the estimate file of the listing's address exists at the start
\* of estimate, the call returns exactly the cached collection and starts
\* no TOR process and no browser.
C1_CacheHit ==
  (pc # "start" /\ FileOf(cacheAtStart, address).present) =>
     /\ pc = "returned"
     /\ estimates = FileOf(cacheAtStart, address).estimates
     /\ nTor = 0
     /\ brLaunched = {}

C1_Witness == pc = "returned" /\ FileOf(cacheAtStart, address).present

\* C2: a unit whose exact-bath and "any"-bath submissions both report
\* insufficient results gets exactly four estimates, one per EstimateType
\* and each 0, nothing else, and the run goes on with the next unit.
C2_GiveUpAddsFourZeros ==
  \A u \in UnitIds :
    (DoubleFailure(u) /\ ~(pc = "stats" /\ unitIdx = u)) =>
       /\ \A t \in EstimateType : RentsOf(estimates, u, t) = <<0>>
       /\ ~(fault # "none" /\ faultUnit = u)

\* C3: when an exception is raised while unit k is processed, the returned
\* collection holds, for every unit up to k, exactly what was appended for
\* it before the exception, and nothing for any unit after k.
C3_FaultContainment ==
  (pc = "returned" /\ MissedCache /\ fault # "none") =>
     \A u \in UnitIds : \A t \in EstimateType :
       /\ RentsOf(estimates, u, t) = SeenRents(u, t)
       /\ u > faultUnit => RentsOf(estimates, u, t) = <<>>

C3_Witness ==
  /\ pc = "returned"
  /\ fault # "none"
  /\ faultUnit = 2
  /\ seen[1] # <<>>
  /\ seen[2] # <<>>
  /\ RentsOf(estimates, 1, MEDIAN) = <<Rent>>

\* C4: a run that passed the cache check ends with every TOR process and
\* every browser it started torn down, however it ends.
C4_UnconditionalTeardown ==
  (Ended /\ MissedCache) =>
     \A i \in 1..nTor :
       /\ torKills[i] >= 1
       /\ i \in brLaunched => brQuits[i] >= 1

\* C5: no quit/close or kill is ever issued a second time on a pair that
\* was already torn down.
C5_TeardownOnce ==
  \A i \in Sessions : torKills[i] <= 1 /\ brQuits[i] <= 1

\* C6: when a run that missed the cache returns, the estimate file of the
\* address holds exactly the returned collection if it is non-empty, and
\* does not exist if nothing was collected.
C6_CacheWriteAtFinalize ==
  (pc = "returned" /\ MissedCache) =>
     IF estimates # <<>>
       THEN FileOf(cache, address) = Entry(estimates)
       ELSE FileOf(cache, address) = NoEntry

C6_Witness ==
  /\ pc = "returned"
  /\ MissedCache
  /\ fault # "none"
  /\ estimates # <<>>

\* C7: with n probes that found the control disabled, an acquisition makes
\* n+1 TOR starts and n+1 browser launches, has torn down each of the first
\* n pairs, and the unit queries go through the pair of the last cycle.
C7_QuotaLoop ==
  HoldingPair =>
     /\ nTor = nDisabled + nAcq
     /\ brLaunched = 1..nTor
     /\ self_tor = nTor
     /\ self_browser = nTor
     /\ torKills[nTor] = 0
     /\ brQuits[nTor] = 0
     /\ \A i \in 1..(nTor - 1) : torKills[i] = 1 /\ brQuits[i] = 1
     /\ pc = "check" => subs[Len(subs)].browser = nTor

C7_Witness ==
  /\ pc = "check"
  /\ nAcq = 1
  /\ nDisabled = 2
  /\ nTor = 3

\* C8: when the control is found disabled right before the submission of
\* unit u and a new enabled pair is acquired, the same unit u is submitted
\* through the new session and the run goes on without an exception.
C8_RecoveryKeepsUnit ==
  (pc = "returned" /\ fault # "env") =>
     \A r \in recovered :
       /\ \E i \in SubsOf(r[1]) :
            subs[i].attempt = r[2] /\ subs[i].browser = self_browser
       /\ fault = "none"

\* C9: the filter of a submission is "1 only" for baths = 1, "1.5 or more"
\* for baths > 1 and "any" for baths <= 0; every baths value selects one
\* of the three filters, and equal baths values select equal filters.
C9_BathFilterMapping ==
  \A i \in DOMAIN subs :
    /\ subs[i].filter \in Filters
    /\ subs[i].baths = OneBath => subs[i].filter = FilterOneOnly
    /\ subs[i].baths > OneBath => subs[i].filter = FilterOneAndHalfOrMore
    /\ subs[i].baths <= 0 => subs[i].filter = FilterAny
    /\ \A j \in DOMAIN subs :
         subs[i].baths = subs[j].baths => subs[i].filter = subs[j].filter

C9_Witness ==
  \E i, j, k \in DOMAIN subs :
    /\ subs[i].baths = OneBath
    /\ subs[j].baths > OneBath
    /\ subs[k].baths <= 0

\* C10: a unit is submitted a second time only when its first response
\* showed the insufficient-results banner, then with the same address and
\* bedroom count and the bathroom filter "any"; no unit is submitted more
\* than twice.
C10_BroadenedRetryOnce ==
  /\ \A i \in DOMAIN subs :
       subs[i].attempt = 2 =>
         /\ i > 1
         /\ subs[i - 1].unit = subs[i].unit
         /\ subs[i - 1].attempt = 1
         /\ subs[i - 1].response = "not enough"
         /\ subs[i].address = subs[i - 1].address
         /\ subs[i].beds = subs[i - 1].beds
         /\ subs[i].filter = FilterAny
  /\ \A u \in UnitIds :
       /\ Cardinality(SubsOf(u)) <= 2
       /\ \A i, j \in SubsOf(u) : i < j => subs[j].attempt = 2

C10_Witness ==
  \E i \in DOMAIN subs :
    /\ subs[i].attempt = 2
    /\ units[subs[i].unit].baths > OneBath
    /\ subs[i].response = "not enough"

\* The type a keyword of a statistic box stands for.
KeywordType ==
  [w \in {"AVERAGE", "MEDIAN", "25TH PERCENTILE", "75TH PERCENTILE"} |->
     CASE w = "AVERAGE" -> AVERAGE
       [] w = "MEDIAN" -> MEDIAN
       [] w = "25TH PERCENTILE" -> PERCENTILE_25
       [] w = "75TH PERCENTILE" -> PERCENTILE_75]

\* The amounts of the boxes of a page that carry the keyword of type t.
BoxRents(page, t) ==
  LET OfType(box) == \E w \in box.words \cap DOMAIN KeywordType :
                        KeywordType[w] = t
      sel == SelectSeq(page, OfType)
  IN [i \in 1..Len(sel) |-> sel[i].val]

\* A page on which every box carries at most one keyword and a parsable
\* amount, and on which at least one of the four types has no box.
PartialPage(page) ==
  /\ \A i \in 1..Len(page) :
       /\ page[i].parses
       /\ Cardinality(page[i].words \cap DOMAIN KeywordType) <= 1
  /\ \E t \in EstimateType : BoxRents(page, t) = <<>>

\* C11: when the page read for a unit shows only some of the four
\* recognized boxes, possibly next to boxes of unknown kinds, reading it
\* appends exactly one estimate per recognized box to the unit's estimates
\* and nothing else, logs the warning, raises no exception, and the run
\* moves on to the next unit (or to the end after the last one).
C11_PartialKindTolerance ==
  [][ (pc = "stats" /\ pages'[unitIdx] # pages[unitIdx]
         /\ PartialPage(pages'[unitIdx][Len(pages'[unitIdx])])) =>
        LET page == pages'[unitIdx][Len(pages'[unitIdx])]
        IN /\ \A t \in EstimateType : \A u \in UnitIds :
                RentsOf(estimates', u, t)
                  = IF u = unitIdx
                      THEN RentsOf(estimates, u, t) \o BoxRents(page, t)
                      ELSE RentsOf(estimates, u, t)
           /\ unitIdx \in warned'
           /\ fault' = "none"
           /\ IF unitIdx < Len(units)
                THEN unitIdx' = unitIdx + 1 /\ pc' = "find_button"
                ELSE pc' = "finally" ]_vars

C11_Witness ==
  /\ pc = "returned"
  /\ fault = "none"
  /\ Len(units) = 2
  /\ pages[1] # <<>>
  /\ PartialPage(pages[1][1])
  /\ \E i \in 1..Len(pages[1][1]) :
       pages[1][1][i].words \cap DOMAIN KeywordType = {}
  /\ BoxRents(pages[1][1], AVERAGE) # <<>>
  /\ pages[2] # <<>>
  /\ ~PartialPage(pages[2][1])

Collections == {estimates, FileOf(cache, address).estimates}

C14_AlignedToUnits ==
  pc = "returned" =>
    \A t \in EstimateType :
      \A i \in 1..Len(GroupUnits(estimates, t)) :
        GroupUnits(estimates, t)[i].unit = i

\* C15: once the output of the TOR process has ended before the marker
\* line was read, starting the session has failed with an error and the
\* run is no longer waiting for the marker.
C15_StartupFailureReported ==
  eofReads > 0 => (pc # "acq_wait" /\ fault # "none")

\* The TOR processes and the browsers that are running: started, and no
\* kill() or close()/quit() issued on them yet.
AliveTor == { i \in 1..nTor : torKills[i] = 0 }
AliveBrowsers == { i \in brLaunched : brQuits[i] = 0 }

\* A step in which _nuke_tor_browser runs: the recovery at line 430 or the
\* finally block at line 547.
NukeStep ==
  \/ pc = "find_button" /\ pc' = "acq_tor"
  \/ pc = "finally" /\ pc' = "returned"

\* C16: _nuke_tor_browser completes and touches nothing when self.tor and
\* self.browser were never set; on a pair that was torn down before it
\* leaves the running processes as they were; in every case it acts on no
\* process but those of self.tor and self.browser.
C16_TeardownIdempotent ==
  [][ NukeStep =>
        /\ (self_tor = 0 /\ self_browser = 0) =>
              (torKills' = torKills /\ brQuits' = brQuits)
        /\ (self_tor # 0 /\ torKills[self_tor] > 0
               /\ self_browser # 0 /\ brQuits[self_browser] > 0) =>
              (AliveTor' = AliveTor /\ AliveBrowsers' = AliveBrowsers)
        /\ \A i \in Sessions :
              /\ i # self_tor => torKills'[i] = torKills[i]
              /\ i # self_browser => brQuits'[i] = brQuits[i] ]_vars

C16_Witness ==
  /\ pc = "returned"
  /\ self_tor # 0
  /\ torKills[self_tor] = 2
  /\ brQuits[self_browser] = 2
  /\ AliveTor = {self_tor + 1}

\* C17: a call of estimate that follows a call for the same address which
\* returned at least one estimate starts no TOR process and no browser and
\* returns a collection equal to the one the earlier call returned.
C17_RepeatedRunsIdempotent ==
  run > 1 =>
    /\ nTor = 0
    /\ brLaunched = {}
    /\ pc \in {"start", "returned"}
    /\ pc = "returned" => estimates = prevEstimates

C17_Witness ==
  /\ run = 2
  /\ pc = "returned"
  /\ ~(\A u \in UnitIds : RentsOf(prevEstimates, u, AVERAGE) # <<>>)
  /\ estimates = prevEstimates
  /\ Len(estimates) > 1

\* The units argument is None or an empty list.
NoUnitsPassed == ~(passed_units.given /\ passed_units.list # <<>>)

\* C18: when no units are passed in, the Listing has the units of the Unit
\* Information extractor if that one succeeds, else those of the Multi
\* Family extractor if that one succeeds, and its construction fails only
\* when both extractors raise IncongruentFormat.
C18_ExtractorOrder ==
  (pc # "construct" /\ NoUnitsPassed) =>
     LET ui == units_from_Unit_Information(raw_listing)
         mf == units_from_Multi_Family(raw_listing)
     IN /\ ui.ok => (pc # "failed" /\ units = ui.units)
        /\ (~ui.ok /\ mf.ok) => (pc # "failed" /\ units = mf.units)
        /\ pc = "failed" => (~ui.ok /\ ~mf.ok)

\* Neither extractor gets a unit out of the raw listing.
NothingToExtract ==
  /\ units_from_Unit_Information(raw_listing).units = <<>>
  /\ units_from_Multi_Family(raw_listing).units = <<>>

\* C19: for a raw listing neither extractor gets a unit out of, and with no
\* units passed, the construction of the Listing fails and the pass of the
\* main loop ends there: estimate is not called, the cache is neither
\* looked up nor written, no TOR process or browser is started.
C19_NoEstimationWithoutUnits ==
  (pc # "construct" /\ NoUnitsPassed /\ NothingToExtract) =>
     /\ pc = "failed"
     /\ units = <<>>
     /\ estimates = <<>>
     /\ cache = cacheAtStart
     /\ nTor = 0
     /\ brLaunched = {}

C19_Witness ==
  /\ pc = "failed"
  /\ passed_units = Passed(<<>>)
  /\ NothingToExtract
  /\ ~raw_listing.unit_information.found
  /\ raw_listing.multi_family = Detail(<<SubCategory("other", NoUnit)>>)
  /\ FileOf(cache, address).present

\* C20: a run for the listing's address leaves the estimate file of every
\* other address string as it was (not created, not changed, not removed),
\* and returns without an acquisition only when the file of its own
\* address was there, with that file's collection.
C20_KeyedByAddress ==
  /\ \A b \in AddressStrings \ {address} :
       FileOf(cache, b) = FileOf(cacheAtStart, b)
  /\ (pc = "returned" /\ nTor = 0 /\ fault = "none") =>
       /\ FileOf(cacheAtStart, address).present
       /\ estimates = FileOf(cacheAtStart, address).estimates

\* C21: at every point of a run at most one TOR process and at most one
\* browser of those the run started are alive, a browser is alive only
\* while the TOR process it was started with is alive, and every pair
\* before the one started last has been torn down, browser and TOR both.
C21_ExclusiveSessionPair ==
  /\ Cardinality(AliveTor) <= 1
  /\ Cardinality(AliveBrowsers) <= 1
  /\ AliveBrowsers \subseteq AliveTor
  /\ \A i \in 1..nTor : i < nTor => i \notin (AliveTor \cup AliveBrowsers)

C21_Witness ==
  /\ pc = "check"
  /\ nTor = MaxSessions
  /\ nDisabled > 0
  /\ AliveTor = {nTor}
  /\ AliveBrowsers = {nTor}

\* C22: the main loop enters the try body for the inputs in list order,
\* each position once; an input is entered only when the handling of every
\* earlier one has ended, so that at most one is in progress; the handling
\* of an input that raised is followed by the for statement, which takes
\* the next input or ends the loop; and the loop ends only when every
\* input has been attempted.
C22_BatchIsolation ==
  /\ attempted = [k \in 1..input |-> k]
  /\ input <= Len(inputs)
  /\ Cardinality(InProgress) <= 1
  /\ Len(outcomes) = input - Cardinality(InProgress)
  /\ pc = "exit" => input = Len(inputs)

C22_Witness ==
  /\ pc = "exit"
  /\ Len(inputs) = MaxInputs
  /\ outcomes[1] = "estimate"
  /\ outcomes[Len(inputs)] = "built"
  /\ attempted = [k \in 1..Len(inputs) |-> k]

\* C23: an estimate file that is in the cache directory when estimate is
\* called is there with the same content at every later point of the
\* call, whatever address it belongs to.
C23_EntriesPermanent ==
  \A d \in Addresses : cacheAtStart[d].present => cache[d] = cacheAtStart[d]

C23_Witness ==
  /\ pc = "returned"
  /\ run = 1
  /\ \A d \in Addresses : cacheAtStart[d].present
  /\ cache = cacheAtStart
  /\ estimates = cache[ListingAddress].estimates
  /\ Len(units) = MaxUnits

\* C24: every invocation made for a wrapped call is of the call's method
\* with the call's arguments; an invocation is followed by another one
\* exactly when it ended in an APIError with code 429; the wrapper is back
\* at its caller only after an invocation that completed, and an APIError
\* with another code is out of the wrapper with no invocation after it.
C24_RetryOn429Only ==
  /\ \A i \in 1..Len(invocations) :
       /\ invocations[i].func = call.func
       /\ invocations[i].args = call.args
       /\ i < Len(invocations) =>
            invocations[i].end = APIError(TooManyRequests)
  /\ invocations # <<>> =>
       /\ pc = "wrapper" <=> LastEnd = APIError(TooManyRequests)
       /\ pc = "build_spreadsheet" <=> LastEnd.ok
       /\ pc = "propagated" <=>
            (~LastEnd.ok /\ LastEnd.code # TooManyRequests)

C24_Witness ==
  /\ pc = "build_spreadsheet"
  /\ call.func = "_get_or_create_worksheet"
  /\ Len(invocations) = MaxRetries + 1
  /\ LastEnd.ok
  /\ worksheet = call.args[1]

\* C25: while a call of _write_tuple is in the wrapper, whatever the
\* number of 429 answers so far, the row counter is the r it had when the
\* call was issued; the step that completes the call sends one update
\* request, of the pair for row r of the active worksheet, maps the label
\* to the cell B r and leaves the counter at r + 1, the mapping of every
\* other label as it was; the step that completes a switch of worksheet
\* leaves the counter at 1.
C25_RowAndLabelBookkeeping ==
  [][ /\ (pc = "wrapper" /\ call.func = "_write_tuple") => row = call.row
      /\ (pc = "wrapper" /\ pc' = "build_spreadsheet") =>
           IF call.func = "_write_tuple"
             THEN /\ updates' =
                       Append(updates,
                              [worksheet |-> worksheet,
                               range |-> Cell("A", call.row),
                               values |-> << call.args[1],
                                             Str(call.args[2]) >>])
                  /\ label_cache' =
                       [label_cache EXCEPT ![call.args[1]] =
                                              Cell("B", call.row)]
                  /\ row' = call.row + 1
             ELSE row' = 1
      /\ (pc = "wrapper" /\ pc' # "build_spreadsheet") =>
           UNCHANGED << updates, label_cache >> ]_vars

C25_Witness ==
  /\ pc = "build_spreadsheet"
  /\ call.func = "_write_tuple"
  /\ call.row > 1
  /\ Len(invocations) = MaxRetries + 1
  /\ row = call.row + 1
  /\ label_cache[call.args[1]] = Cell("B", call.row)
  /\ Len(updates) > 1
  /\ updates[Len(updates) - 1].values[1] = call.args[1]

\* C26 as stated: with an environment that answers, every call of
\* estimate comes to the point where it has returned its collection.
C26_EventuallyReturns == (pc = "start") ~> (pc = "returned")

\* C26: with an environment that answers, every call of estimate comes to
\* its end: it has gone through the finally block and has returned its
\* collection, or the cache write in the finally block raised and the
\* exception has left estimate.
C26_EventuallyEnds == (pc = "start") ~> Ended

C26_Witness ==
  /\ pc = "returned"
  /\ Len(units) = MaxUnits
  /\ nTor = MaxSessions
  /\ nDisabled > 0
  /\ recovered # {}
  /\ fault # "none"

\* The collection f is the collection e with estimates appended: the
\* groups of e are the first groups of f, in their order, each with its
\* estimates as the first estimates of the group.
Extends(e, f) ==
  /\ Len(e) <= Len(f)
  /\ \A i \in 1..Len(e) :
       /\ f[i].type = e[i].type
       /\ Len(e[i].units) <= Len(f[i].units)
       /\ SubSeq(f[i].units, 1, Len(e[i].units)) = e[i].units

\* C27: every step of a call of estimate leaves the collection as it was
\* or appends estimates to it; no step removes or changes an estimate
\* that is in it.
C27_AppendOnly == [][ run' = run => Extends(estimates, estimates') ]_vars

C27_Witness ==
  /\ pc = "returned"
  /\ Len(units) > 1
  /\ \E p \in recovered : p[1] = 2
  /\ faultUnit = 2
  /\ fault # "none"
  /\ RentsOf(estimates, 1, AVERAGE) = <<Rent>>

\* C28: at every point of a run the collection has at most one group of
\* each EstimateType, and no group of it is without estimates.
C28_OneGroupPerKind ==
  /\ \A i, j \in 1..Len(estimates) :
       estimates[i].type = estimates[j].type => i = j
  /\ \A i \in 1..Len(estimates) : estimates[i].units # <<>>

C28_Witness ==
  /\ MissedCache
  /\ pc = "stats"
  /\ unitIdx = MaxUnits
  /\ Len(estimates) = Cardinality(EstimateType)
  /\ \A i \in 1..Len(estimates) : Len(estimates[i].units) > 1

\* C29: whatever the raw listing and the units passed in, the units
\* property has raised, or the list it returned has at least one Unit.
C29_UnitsNeverEmpty ==
  pc # "construct" => (pc = "failed" \/ Len(units) >= 1)

C29_Witness ==
  /\ pc = "listed"
  /\ passed_units = Passed(<<>>)
  /\ ~raw_listing.unit_information.found
  /\ Len(raw_listing.multi_family.subCategories) = MaxSubCategories
  /\ Len(units) = 1

\* C30: in a scenario of generate_scenarios, as in one of
\* build_spreadsheet, the principal the monthly mortgage payment is
\* computed on is the price minus the down-payment amount, the amount
\* being price x percentage / 100.
C30_MortgagePrincipal ==
  LET amount == (price * percent_down) \div 100
  IN /\ main_p.set => main_p.p = price - amount
     /\ script_p.set => script_p.p = price - amount

====
